---------------------------- MODULE Spec2Model ----------------------------
(***************************************************************************)
(* License plate sighting tracker (src/app.py): the Sighting table, the    *)
(* image store directory, and the request handlers that change them.       *)
(*                                                                         *)
(* Text is a string, and the operations on text (upper-casing, extension   *)
(* checks, filename sanitising, suffix matching, date parsing) are         *)
(* computed character by character, as the code computes them.             *)
(***************************************************************************)
EXTENDS Integers, Sequences, FiniteSets, TLC

\* None in Python, NULL in the table: a value no request text equals
NULL == "<None>"

(***************************************************************************)
(* Characters and strings                                                  *)
(***************************************************************************)
LowerAlpha == "abcdefghijklmnopqrstuvwxyz"
UpperAlpha == "ABCDEFGHIJKLMNOPQRSTUVWXYZ"
DigitChars == "0123456789"

Max(S) == CHOOSE x \in S : \A y \in S : y <= x

\* the i-th character of s
At(s, i) == SubSeq(s, i, i)

\* the characters of s
Range(s) == { At(s, i) : i \in 1..Len(s) }

IndexOf(c, alpha) == CHOOSE i \in 1..Len(alpha) : At(alpha, i) = c

UpperChar(c) == IF c \in Range(LowerAlpha)
                  THEN At(UpperAlpha, IndexOf(c, LowerAlpha)) ELSE c

LowerChar(c) == IF c \in Range(UpperAlpha)
                  THEN At(LowerAlpha, IndexOf(c, UpperAlpha)) ELSE c

\* a faulty upper: the text is stored as typed
upperAsTyped(s) == s

\* str.upper(), app.py:154-155, 217-218
RECURSIVE upper(_)
upper(s) == IF s = "" THEN "" ELSE UpperChar(Head(s)) \o upper(Tail(s))

\* str.lower(), app.py:72
RECURSIVE lower(_)
lower(s) == IF s = "" THEN "" ELSE LowerChar(Head(s)) \o lower(Tail(s))

\* str(n) for n >= 0, as the f-string of app.py:80 formats the id
RECURSIVE str(_)
str(n) == IF n < 10 THEN At(DigitChars, n + 1)
          ELSE str(n \div 10) \o At(DigitChars, (n % 10) + 1)

\* s.endswith(t), app.py:320
endswith(s, t) == /\ Len(t) <= Len(s)
                  /\ SubSeq(s, Len(s) - Len(t) + 1, Len(s)) = t

\* the last position of character c in s, 0 when it does not occur
LastIndex(s, c) == IF c \in Range(s)
                     THEN Max({ i \in 1..Len(s) : At(s, i) = c })
                     ELSE 0

\* ALLOWED_EXTENSIONS, app.py:38
ALLOWED_EXTENSIONS == { "png", "jpg", "jpeg", "gif", "webp" }

\* allowed_file, app.py:70-72
allowed_file(filename) ==
  /\ "." \in Range(filename)
  /\ lower(SubSeq(filename, LastIndex(filename, ".") + 1, Len(filename)))
        \in ALLOWED_EXTENSIONS

(***************************************************************************)
(* werkzeug.utils.secure_filename, called at app.py:79: path separators    *)
(* become blanks, runs of blanks become one "_", characters outside        *)
(* [A-Za-z0-9_.-] are dropped, leading and trailing "." and "_" stripped.  *)
(***************************************************************************)
SafeChars == Range(LowerAlpha) \cup Range(UpperAlpha) \cup Range(DigitChars)
               \cup {"_", ".", "-"}

RECURSIVE SplitJoin(_, _, _)
\* "_".join(s.split()): pending is TRUE when a blank was seen after a word
SplitJoin(s, out, pending) ==
  IF s = "" THEN out
  ELSE IF Head(s) \in {" ", "/"} THEN SplitJoin(Tail(s), out, out # "")
  ELSE SplitJoin(Tail(s),
                 (IF pending THEN out \o "_" ELSE out) \o Head(s),
                 FALSE)

RECURSIVE Keep(_, _)
\* the characters of s that are in chars
Keep(s, chars) ==
  IF s = "" THEN ""
  ELSE (IF Head(s) \in chars THEN Head(s) ELSE "") \o Keep(Tail(s), chars)

RECURSIVE StripLeft(_)
StripLeft(s) == IF s # "" /\ Head(s) \in {".", "_"}
                  THEN StripLeft(Tail(s)) ELSE s

RECURSIVE StripRight(_)
StripRight(s) == IF s # "" /\ At(s, Len(s)) \in {".", "_"}
                   THEN StripRight(SubSeq(s, 1, Len(s) - 1)) ELSE s

secure_filename(filename) ==
  StripRight(StripLeft(Keep(SplitJoin(filename, "", FALSE), SafeChars)))

\* the stored name of an upload, app.py:79-80
StoredName(sighting_id, filename) ==
  "sighting_" \o str(sighting_id) \o "_" \o secure_filename(filename)

(***************************************************************************)
(* datetime: <<year, month, day, hour, minute, second>>, ordered as Python *)
(* orders datetimes.  strptime returns ValueError for text that does not   *)
(* match the format or names no calendar day.                              *)
(***************************************************************************)
ValueError == << "ValueError" >>

\* a NULL timestamp
NoTime == << >>

IsLeap(y) == (y % 4 = 0 /\ y % 100 # 0) \/ y % 400 = 0

DaysInMonth(y, m) == IF m = 2 THEN (IF IsLeap(y) THEN 29 ELSE 28)
                     ELSE IF m \in {4, 6, 9, 11} THEN 30 ELSE 31

\* a < b on datetimes
DtLess(a, b) ==
  \E i \in 1..6 : a[i] < b[i] /\ \A j \in 1..(i - 1) : a[j] = b[j]

\* datetime + timedelta past datetime.max (year 9999) raises OverflowError
OverflowError == << "OverflowError" >>

\* dt + timedelta(days=1), app.py:117
PlusOneDay(dt) ==
  IF dt[3] < DaysInMonth(dt[1], dt[2]) THEN [dt EXCEPT ![3] = dt[3] + 1]
  ELSE IF dt[2] < 12 THEN [dt EXCEPT ![2] = dt[2] + 1, ![3] = 1]
  ELSE IF dt[1] < 9999 THEN [dt EXCEPT ![1] = dt[1] + 1, ![2] = 1, ![3] = 1]
  ELSE OverflowError

IsDigits(s) == s # "" /\ Range(s) \subseteq Range(DigitChars)

RECURSIVE Num(_)
Num(s) == IF s = "" THEN 0
          ELSE 10 * Num(SubSeq(s, 1, Len(s) - 1))
                 + (IndexOf(At(s, Len(s)), DigitChars) - 1)

RECURSIVE Split(_, _)
\* s.split(sep) for a one-character separator
Split(s, sep) ==
  IF sep \notin Range(s) THEN << s >>
  ELSE LET i == CHOOSE k \in 1..Len(s) :
                  At(s, k) = sep /\ \A j \in 1..(k - 1) : At(s, j) # sep
       IN  << SubSeq(s, 1, i - 1) >> \o Split(SubSeq(s, i + 1, Len(s)), sep)

\* a field of one or two digits with a value in lo..hi (%m, %d, %H, %M)
Field2(s, lo, hi) ==
  IsDigits(s) /\ Len(s) <= 2 /\ Num(s) >= lo /\ Num(s) <= hi

\* the date part of a format: %Y-%m-%d
DateFields(s) ==
  LET p == Split(s, "-")
  IN  IF /\ Len(p) = 3
         /\ IsDigits(p[1]) /\ Len(p[1]) = 4 /\ Num(p[1]) >= 1
         /\ Field2(p[2], 1, 12)
         /\ Field2(p[3], 1, 31)
         /\ Num(p[3]) <= DaysInMonth(Num(p[1]), Num(p[2]))
        THEN << Num(p[1]), Num(p[2]), Num(p[3]) >>
        ELSE ValueError

\* datetime.strptime(s, '%Y-%m-%d'), app.py:111 and 117
strptime_date(s) ==
  LET d == DateFields(s)
  IN  IF d = ValueError THEN ValueError ELSE d \o << 0, 0, 0 >>

\* datetime.strptime(s, '%Y-%m-%dT%H:%M'), app.py:151 and 215
strptime_minute(s) ==
  LET p == Split(s, "T")
  IN  IF Len(p) # 2 THEN ValueError
      ELSE LET d == DateFields(p[1])
               t == Split(p[2], ":")
           IN  IF /\ d # ValueError
                  /\ Len(t) = 2
                  /\ Field2(t[1], 0, 23)
                  /\ Field2(t[2], 0, 59)
                 THEN d \o << Num(t[1]), Num(t[2]), 0 >>
                 ELSE ValueError

(***************************************************************************)
(* Bounds and the inputs the requests are drawn from                       *)
(***************************************************************************)
\* the largest id the database hands out in a run
MaxId == 2

\* the largest number of files in one bulk import
MaxBatch == 2

\* the two databases app.py:22-30 configures.  SQLite gives a new row the
\* largest id in the table plus one; PostgreSQL draws ids from a sequence
\* that is never rolled back
Backends == {"sqlite", "postgresql"}

\* datetime.utcnow(), app.py:151
Clock == { <<2025, 10, 6, 0, 0, 1>> }

\* names of uploaded files, as the browser sends them
NameA      == "a.jpg"
NameMyPic  == "../my pic.JPG"
NameTxt    == "x.txt"
NameEmpty  == ""
\* names only a bulk import sends: a stored name, the tail of a stored
\* name, and a name no row can match
NameStored == "sighting_1_a.jpg"
NamePic    == "pic.JPG"
NameOther  == "z.png"

\* request.form of /add and /edit: NULL is a key the form does not hold
FormA == [ state |-> "ca", license_plate |-> "abc1",
           car_make |-> "Kia", car_model |-> "Rio", color |-> "red",
           location |-> NULL, sighting_time |-> NULL, notes |-> NULL ]
FormB == [ state |-> "Ny", license_plate |-> "x-2Y",
           car_make |-> "Kia", car_model |-> "Rio", color |-> "red",
           location |-> "LA", sighting_time |-> "2025-10-05T23:59",
           notes |-> "ok" ]
FormNoState == [ FormA EXCEPT !.state = NULL ]
FormBadTime == [ FormA EXCEPT !.sighting_time = "soon" ]

AllForms == { FormA, FormB, FormNoState, FormBadTime }

\* request.files['image'] of /add and /edit; NoFile is no 'image' part
NoFile == [filename |-> NULL, bytes |-> ""]
Upload(filename) == [filename |-> filename, bytes |-> "p"]

(***************************************************************************)
(* The text operations, computed once for the texts the requests carry     *)
(***************************************************************************)
FileNames == { NameA, NameMyPic, NameTxt, NameEmpty, NameStored, NamePic,
               NameOther }

\* allowed_file(file.filename), app.py:77, 170, 236, 302
AllowedFile == [ n \in FileNames |-> allowed_file(n) ]

\* f"sighting_{sighting_id}_{original_filename}", app.py:79-80
StoredNames == [ id \in 1..MaxId, n \in FileNames |-> StoredName(id, n) ]

\* request.form['state'].upper(), request.form['license_plate'].upper(),
\* app.py:154-155, 217-218
Upper == [ t \in { f.state : f \in AllForms }
                   \cup { f.license_plate : f \in AllForms } |->
             IF t = NULL THEN NULL ELSE upper(t) ]

\* datetime.strptime(sighting_time_str, '%Y-%m-%dT%H:%M'), app.py:151, 215
ParsedMinute == [ t \in { f.sighting_time : f \in AllForms } |->
                    IF t = NULL THEN ValueError ELSE strptime_minute(t) ]

(***************************************************************************)
(* State                                                                   *)
(***************************************************************************)
VARIABLES
  backend,   \* which database is configured, app.py:22-30
  table,     \* the Sighting table: id -> row, app.py:53-63
  seq,       \* PostgreSQL's id sequence (0 under SQLite)
  store,     \* UPLOAD_FOLDER: file name -> contents, app.py:35-41
  staging,   \* UPLOAD_FOLDER/temp_export
  zipfile,   \* UPLOAD_FOLDER/license_plates_export.zip
  audit,     \* per row, what its last committed write submitted and saw
  last,      \* the last request and what it did
  exports    \* the /export/zip requests in progress, app.py:400-477

vars == << backend, table, seq, store, staging, zipfile, audit, last,
           exports >>

Ids == DOMAIN table

Files == DOMAIN store

\* f with key k bound to v
Put(f, k, v) == [ x \in DOMAIN f \cup {k} |-> IF x = k THEN v ELSE f[x] ]

\* f without key k
Drop(f, k) == [ x \in DOMAIN f \ {k} |-> f[x] ]

\* the id the database gives the next INSERT, app.py:54 and 164
NextId == IF backend = "sqlite" THEN Max(Ids \cup {0}) + 1 ELSE seq + 1

\* a faulty Rollback: the session's pending changes stay
RollbackKeepsSession(committed, session) == session

\* db.session.rollback(), app.py:181, 251, 269
Rollback(committed, session) == committed

\* os.path.exists(os.path.join(UPLOAD_FOLDER, filename)), app.py:91, 444
exists(files, filename) == filename \in DOMAIN files

\* a faulty delete_image: the file is left in place
delete_image_keeps(files, filename, fault) ==
  [ files |-> files, removes |-> 0 ]

\* delete_image, app.py:87-97: removes the file if it exists; an error of
\* os.remove is printed and swallowed.  removes counts the os.remove calls
delete_image(files, filename, fault) ==
  IF filename # NULL /\ exists(files, filename)
    THEN [ files   |-> IF fault = "remove" THEN files
                       ELSE Drop(files, filename),
           removes |-> 1 ]
    ELSE [ files |-> files, removes |-> 0 ]

\* a faulty save_image: the upload is stored under the name it was sent
\* with
save_image_as_sent(files, file, sighting_id, fault) ==
  IF file # NoFile /\ file.filename # NameEmpty /\ AllowedFile[file.filename]
    THEN IF fault = "save"
           THEN [ raised |-> TRUE, filename |-> NULL, files |-> files,
                  writes |-> 1 ]
           ELSE [ raised |-> FALSE, filename |-> file.filename,
                  files |-> Put(files, file.filename, file.bytes),
                  writes |-> 1 ]
    ELSE [ raised |-> FALSE, filename |-> NULL, files |-> files,
           writes |-> 0 ]

\* save_image, app.py:75-84: the name the upload is stored under, NULL for
\* no file or a disallowed extension.  file.save raises under fault "save"
\* (nothing is written); writes counts the file.save calls
save_image(files, file, sighting_id, fault) ==
  IF file # NoFile /\ file.filename # NameEmpty /\ AllowedFile[file.filename]
    THEN IF fault = "save"
           THEN [ raised |-> TRUE, filename |-> NULL, files |-> files,
                  writes |-> 1 ]
           ELSE LET filename == StoredNames[sighting_id, file.filename]
                IN  [ raised |-> FALSE, filename |-> filename,
                      files |-> Put(files, filename, file.bytes),
                      writes |-> 1 ]
    ELSE [ raised |-> FALSE, filename |-> NULL, files |-> files,
           writes |-> 0 ]

(***************************************************************************)
(* The sighting service: /add, /edit/<id>, /delete/<id>                    *)
(***************************************************************************)
Required == {"state", "license_plate", "car_make", "car_model", "color"}

\* request.form[k] raises KeyError for a missing required key
KeyError(form) == \E k \in Required : form[k] = NULL

Blank(text) == text = NULL \/ text = ""

\* what the last committed write of a row submitted, and whether the file
\* the row names was in the image store when it committed
Attest(form, row, files) ==
  [ state |-> form.state, license_plate |-> form.license_plate,
    fileSeen |-> row.image_filename # NULL
                   /\ exists(files, row.image_filename) ]

\* the columns of a row of Sighting as a request writes them,
\* app.py:153-162 and 217-224
Columns(form, timestamp, image_filename) ==
  [ state |-> Upper[form.state],
    license_plate |-> Upper[form.license_plate],
    car_make |-> form.car_make,
    car_model |-> form.car_model,
    color |-> form.color,
    location |-> form.location,
    timestamp |-> timestamp,
    notes |-> form.notes,
    image_filename |-> image_filename ]

\* the record of a request to the sighting service: what was asked, the
\* exception that ended it in a rollback ("none": it committed or did
\* nothing), whether an os.remove failed (swallowed), and how many os.remove
\* calls, file.save calls and committed row changes it made
Served(op, id, found, remove_image, error, removeFailed, removes, writes, commits) ==
  [ op |-> op, id |-> id, found |-> found,
    remove_image |-> remove_image, error |-> error,
    removeFailed |-> removeFailed,
    removes |-> removes, writes |-> writes, commits |-> commits ]

\* a request that raised before it touched a file or the session
Rejected(op, id, remove_image, error) ==
  /\ table' = Rollback(table, table)
  /\ UNCHANGED << store, seq, audit >>
  /\ last' = Served(op, id, TRUE, remove_image, error, FALSE, 0, 0, 0)

\* add_sighting from the flush on, app.py:163-183
\* (\E x \in {e} names the value e)
add_sighting_flushed(form, timestamp, file, fault) ==
  \E id \in { NextId } :
  \E img \in { save_image(store, file, id, fault) } :
  \E row \in { Columns(form, timestamp, img.filename) } :
  \E session \in { Put(table, id, row) } :
    /\ seq' = IF backend = "postgresql" THEN seq + 1 ELSE seq
    /\ store' = img.files
    /\ IF img.raised \/ fault = "commit"
         THEN /\ table' = Rollback(table, session)
              /\ audit' = audit
              /\ last' = Served("create", id, TRUE, FALSE,
                                IF img.raised THEN "save" ELSE "commit",
                                FALSE, 0, img.writes, 0)
         ELSE /\ table' = session
              /\ audit' = Put(audit, id, Attest(form, row, img.files))
              /\ last' = Served("create", id, TRUE, FALSE, "none",
                                FALSE, 0, img.writes, 1)

\* add_sighting, POST, app.py:146-183: the form is read and the timestamp
\* parsed (app.py:150-162) before the files are looked at
add_sighting(form, now, uploads, faults) ==
  \E timestamp \in { IF Blank(form.sighting_time) THEN now
                     ELSE ParsedMinute[form.sighting_time] } :
    IF timestamp = ValueError \/ KeyError(form)
      THEN Rejected("create", 0, FALSE, "validation")
      ELSE \E file \in uploads, fault \in faults :
             IF fault = "flush"
               THEN Rejected("create", 0, FALSE, "flush")
               ELSE add_sighting_flushed(form, timestamp, file, fault)

Create(forms, uploads, faults) ==
  /\ NextId <= MaxId
  /\ \E form \in forms, now \in Clock :
       add_sighting(form, now, uploads, faults)
  /\ UNCHANGED << exports, backend, staging, zipfile >>

\* delete_image when there is nothing to delete
NoRemoval(files) == [ files |-> files, removes |-> 0 ]

\* 'Sighting not found.', app.py:208-210, 271-272
NotFound(op, sighting_id, remove_image) ==
  /\ UNCHANGED << table, store, seq, audit >>
  /\ last' = Served(op, sighting_id, FALSE, remove_image, "none", FALSE,
                    0, 0, 0)

\* a faulty Kept: the reference is not cleared when the flag is set
KeptReference(remove_image, sighting) == sighting.image_filename

\* the image reference after "Handle image removal", app.py:226-230
Kept(remove_image, sighting) ==
  IF remove_image THEN NULL ELSE sighting.image_filename

\* edit_sighting from the image handling on, app.py:226-252
edit_sighting_image(sighting_id, sighting, form, timestamp, remove_image, file, fault) ==
  \* Handle image removal, app.py:226-230
  \E removed \in { IF remove_image /\ sighting.image_filename # NULL
                     THEN delete_image(store, sighting.image_filename, fault)
                     ELSE NoRemoval(store) } :
  \E kept \in { Kept(remove_image, sighting) } :
  \* Handle new image upload, app.py:232-245
  \E uploading \in { /\ file # NoFile
                     /\ file.filename # NameEmpty
                     /\ AllowedFile[file.filename] } :
  \E replaced \in { IF uploading /\ kept # NULL
                      THEN delete_image(removed.files, kept, fault)
                      ELSE NoRemoval(removed.files) } :
  \E img \in { save_image(replaced.files, file, sighting_id, fault) } :
  \E row \in { Columns(form, timestamp,
                       IF img.filename # NULL THEN img.filename ELSE kept) } :
  \E session \in { Put(table, sighting_id, row) } :
  \E removes \in { removed.removes + replaced.removes } :
    /\ seq' = seq
    /\ store' = img.files
    /\ IF img.raised \/ fault = "commit"
         THEN /\ table' = Rollback(table, session)
              /\ audit' = audit
              /\ last' = Served("update", sighting_id, TRUE, remove_image,
                                IF img.raised THEN "save" ELSE "commit",
                                fault = "remove" /\ removes > 0,
                                removes, img.writes, 0)
         ELSE /\ table' = session
              /\ audit' = Put(audit, sighting_id,
                              Attest(form, row, img.files))
              /\ last' = Served("update", sighting_id, TRUE, remove_image,
                                "none", fault = "remove" /\ removes > 0,
                                removes, img.writes, 1)

\* edit_sighting, POST, app.py:205-254
edit_sighting(sighting_id, form, uploads, faults) ==
  IF sighting_id \notin Ids
    THEN NotFound("update", sighting_id, FALSE)
    ELSE
      \E sighting \in { table[sighting_id] } :
      \E timestamp \in { IF Blank(form.sighting_time) THEN sighting.timestamp
                         ELSE ParsedMinute[form.sighting_time] } :
        IF timestamp = ValueError \/ KeyError(form)
          THEN Rejected("update", sighting_id, FALSE, "validation")
          ELSE \E remove_image \in BOOLEAN, file \in uploads,
                  fault \in faults :
                 edit_sighting_image(sighting_id, sighting, form, timestamp,
                                     remove_image, file, fault)

Update(forms, uploads, faults) ==
  /\ \E sighting_id \in 1..MaxId, form \in forms :
       edit_sighting(sighting_id, form, uploads, faults)
  /\ UNCHANGED << exports, backend, staging, zipfile >>

\* delete_sighting, app.py:256-273
delete_sighting(sighting_id, fault) ==
  IF sighting_id \notin Ids
    THEN NotFound("delete", sighting_id, FALSE)
    ELSE
      \E sighting \in { table[sighting_id] } :
      \E removed \in { IF sighting.image_filename # NULL
                         THEN delete_image(store, sighting.image_filename,
                                           fault)
                         ELSE NoRemoval(store) } :
      \E session \in { Drop(table, sighting_id) } :
        /\ seq' = seq
        /\ store' = removed.files
        /\ IF fault = "commit"
             THEN /\ table' = Rollback(table, session)
                  /\ audit' = audit
                  /\ last' = Served("delete", sighting_id, TRUE, FALSE,
                                    "commit", FALSE, removed.removes, 0, 0)
             ELSE /\ table' = session
                  /\ audit' = Drop(audit, sighting_id)
                  /\ last' = Served("delete", sighting_id, TRUE, FALSE,
                                    "none",
                                    fault = "remove" /\ removed.removes > 0,
                                    removed.removes, 0, 1)

Delete(faults) ==
  /\ \E sighting_id \in 1..MaxId, fault \in faults :
       delete_sighting(sighting_id, fault)
  /\ UNCHANGED << exports, backend, staging, zipfile >>

\* a directory entry that does not exist
Absent == [ exists |-> FALSE ]

NoRequest == [ op |-> "none" ]

\* the /export/zip requests that can be in progress at the same time (the
\* server runs each request on a thread or worker of its own)
Requests == {"first", "second"}

\* no request of that name is in progress
Idle == [ pc |-> "idle" ]

Init ==
  /\ backend \in Backends
  /\ table = << >>
  /\ seq = 0
  /\ store = << >>
  /\ staging = Absent
  /\ zipfile = Absent
  /\ audit = << >>
  /\ last = NoRequest
  /\ exports = [ r \in Requests |-> Idle ]

(***************************************************************************)
(* The sighting service under every fault: rows are created, edited and    *)
(* deleted, with and without uploads                                       *)
(***************************************************************************)
\* what goes wrong outside the program during a request: the INSERT at
\* flush, the write of an upload, the removal of a file, the COMMIT
NoFault == {"none"}
CommitFaults == {"none", "commit"}
CreateFaults == {"none", "flush", "save", "commit"}
UpdateFaults == {"none", "remove", "save", "commit"}
DeleteFaults == {"none", "remove", "commit"}

ServiceForms == { FormA, FormNoState, FormBadTime }
ServiceUploads == { NoFile, Upload(NameEmpty), Upload(NameA),
                    Upload(NameMyPic), Upload(NameTxt) }

Next ==
  \/ Create(ServiceForms, ServiceUploads, CreateFaults)
  \/ Update(ServiceForms, ServiceUploads, UpdateFaults)
  \/ Delete(DeleteFaults)

Spec == Init /\ [][Next]_vars

(***************************************************************************)
(* Claims about the sighting service                                       *)
(***************************************************************************)
ServiceOps == {"create", "update", "delete"}

ByIdOps == {"update", "delete"}

\* C1: every row with a non-null image_filename names a file that was in
\* the image store when the row's last committed write committed.
C1_ImageFileAttested ==
  \A id \in Ids :
    table[id].image_filename # NULL => audit[id].fileSeen

C4_OneFileOperation ==
  last.op \in ServiceOps =>
    last.removes + last.writes <= 1 /\ last.commits <= 1

\* C4, amended: a call deletes at most one file and writes at most one file
\* (an update that replaces an image does both) and commits at most one
\* record write or delete; create never deletes a file, delete never writes.
C4_OneDeleteOneWrite ==
  last.op \in ServiceOps =>
    /\ last.removes <= 1 /\ last.writes <= 1 /\ last.commits <= 1
    /\ last.op = "create" => last.removes = 0
    /\ last.op = "delete" => last.writes = 0

\* C4 witness: an update deleted the old image and wrote the new one
C4_Witness ==
  /\ last.op = "update" /\ last.error = "none"
  /\ last.removes = 1 /\ last.writes = 1 /\ last.commits = 1

\* C5: a create that raises (validation, flush, image write or commit)
\* leaves the table exactly as it was.
C5_CreateRollsBack ==
  [][ (last'.op = "create" /\ last'.error # "none") => table' = table ]_vars

\* C5 witness: with a row in the table, a create wrote its image and then
\* failed at commit
C5_Witness ==
  /\ last.op = "create" /\ last.error = "commit" /\ last.writes = 1
  /\ Ids # {}
  /\ last.id \notin Ids

(***************************************************************************)
(* The text fields: rows are created and edited with every form, without   *)
(* uploads                                                                 *)
(***************************************************************************)
NoUpload == { NoFile }

NextFields ==
  \/ Create(AllForms, NoUpload, CommitFaults)
  \/ Update(AllForms, NoUpload, CommitFaults)

SpecFields == Init /\ [][NextFields]_vars

\* u is t with every lower-case letter replaced by its upper-case letter
IsUpperOf(u, t) ==
  /\ Len(u) = Len(t)
  /\ \A i \in 1..Len(t) :
       IF At(t, i) \in Range(LowerAlpha)
         THEN At(u, i) = At(UpperAlpha, IndexOf(At(t, i), LowerAlpha))
         ELSE At(u, i) = At(t, i)

NoLower(s) == Range(s) \cap Range(LowerAlpha) = {}

\* C3: every row's state and license_plate are the upper-cased form of the
\* values its last committed create or update submitted, and hold no
\* lower-case character.
C3_UpperCased ==
  \A id \in Ids :
    /\ IsUpperOf(table[id].state, audit[id].state)
    /\ IsUpperOf(table[id].license_plate, audit[id].license_plate)
    /\ NoLower(table[id].state)
    /\ NoLower(table[id].license_plate)

\* C3 witness: an update that submitted mixed-case values committed, over a
\* row that was created with other values
C3_Witness ==
  /\ last.op = "update" /\ last.error = "none" /\ last.found
  /\ last.id \in Ids
  /\ audit[last.id].state = "Ny" /\ table[last.id].state = "NY"
  /\ audit[last.id].license_plate = "x-2Y"
  /\ table[last.id].license_plate = "X-2Y"
  /\ \E id \in Ids : table[id].state = "CA"

(***************************************************************************)
(* The bulk image importer: POST /bulk_upload, app.py:280-346              *)
(***************************************************************************)
\* the names a bulk import sends
BulkNames == { NameEmpty, NameTxt, NameA, NameStored, NamePic, NameOther }

\* the bytes of the k-th file of a batch
Bytes(k) == "q" \o str(k)

\* the image_filename values save_image can give a row
ImageNames == { StoredNames[id, n] :
                  id \in 1..MaxId, n \in { m \in FileNames : AllowedFile[m] } }

\* s.image_filename.endswith(f"_{uploaded_filename}"), app.py:320
EndsWithName == [ img \in ImageNames, n \in BulkNames |->
                    endswith(img, "_" \o n) ]

\* the orders in which Sighting.query.filter(...).all(), app.py:318, can
\* return the rows: the query has no ORDER BY
ScanOrders == { o \in [1..MaxId -> 1..MaxId] :
                  \A i, j \in 1..MaxId : o[i] = o[j] => i = j }

\* Sighting.query.filter_by(image_filename=uploaded_filename).first(),
\* app.py:312-314
ExactMatch(uploaded_filename) ==
  \E id \in Ids : table[id].image_filename = uploaded_filename

\* the scan of app.py:318-323: the image_filename of the first row in scan
\* order that ends with "_" and the uploaded name, NULL when there is none
SuffixMatch(order, uploaded_filename) ==
  LET hits == { i \in 1..MaxId :
                  /\ order[i] \in Ids
                  /\ table[order[i]].image_filename # NULL
                  /\ EndsWithName[table[order[i]].image_filename,
                                  uploaded_filename] }
  IN  IF hits = {} THEN NULL
      ELSE table[order[CHOOSE i \in hits : \A j \in hits : i <= j]]
             .image_filename

\* what the loop did with one file
Outcome(outcome, target) == [ outcome |-> outcome, target |-> target ]

\* continue, app.py:299-300
Skipped == Outcome("skipped", NULL)

\* "Invalid file type", app.py:302-305
Invalid == Outcome("invalid", NULL)

\* "No matching sighting found in database", app.py:325-328
NoMatch == Outcome("nomatch", NULL)

\* the loop of bulk_upload, app.py:298-333, from the k-th file on.  The
\* file.save of the failAt-th file raises; nothing catches it, so the loop
\* and the request end there
RECURSIVE bulk_loop(_, _, _, _, _)
bulk_loop(files, k, order, failAt, acc) ==
  IF k > Len(files) \/ acc.raised THEN acc
  ELSE
    LET uploaded_filename == files[k].filename
        target_filename ==
          IF ExactMatch(uploaded_filename) THEN uploaded_filename
          ELSE SuffixMatch(order, uploaded_filename)
    IN  IF uploaded_filename = NameEmpty
          THEN bulk_loop(files, k + 1, order, failAt,
                 [ acc EXCEPT !.log = Append(@, Skipped) ])
        ELSE IF ~AllowedFile[uploaded_filename]
          THEN bulk_loop(files, k + 1, order, failAt,
                 [ acc EXCEPT !.log = Append(@, Invalid),
                              !.error_count = @ + 1 ])
        ELSE IF target_filename = NULL
          THEN bulk_loop(files, k + 1, order, failAt,
                 [ acc EXCEPT !.log = Append(@, NoMatch),
                              !.error_count = @ + 1 ])
        ELSE IF k = failAt
          THEN [ acc EXCEPT !.log = Append(@, Outcome("raised",
                                                      target_filename)),
                            !.raised = TRUE ]
        ELSE bulk_loop(files, k + 1, order, failAt,
               [ acc EXCEPT !.log = Append(@, Outcome("saved",
                                                      target_filename)),
                            !.store = Put(@, target_filename, files[k].bytes),
                            !.success_count = @ + 1 ])

\* the record of a bulk import: the batch, whether any file was selected,
\* whether the request ended in an unhandled exception, what the loop did
\* with each file it reached, and the two counters
Imported(files, selected, done) ==
  [ op |-> "bulk", files |-> files, selected |-> selected,
    raised |-> done.raised, log |-> done.log,
    success_count |-> done.success_count,
    error_count |-> done.error_count ]

\* bulk_upload, POST, app.py:283-343
bulk_upload(files, order, failAt) ==
  \E start \in { [ store |-> store, log |-> << >>, raised |-> FALSE,
                   success_count |-> 0, error_count |-> 0 ] } :
    IF \A k \in 1..Len(files) : files[k].filename = NameEmpty
      THEN \* 'No files selected', app.py:284-292
           /\ store' = store
           /\ last' = Imported(files, FALSE, start)
      ELSE \E done \in { bulk_loop(files, 1, order, failAt, start) } :
             /\ store' = done.store
             /\ last' = Imported(files, TRUE, done)

BulkUpload(names) ==
  /\ \E n \in 0..MaxBatch :
     \E sent \in [1..n -> names], order \in ScanOrders, failAt \in 0..n :
       bulk_upload([ k \in 1..n |->
                       [ filename |-> sent[k], bytes |-> Bytes(k) ] ],
                   order, failAt)
  /\ UNCHANGED << exports, backend, table, seq, staging, zipfile, audit >>

OneForm == { FormA }

ImageUploads == { NoFile, Upload(NameA), Upload(NameMyPic) }

NextBulk ==
  \/ Create(OneForm, ImageUploads, NoFault)
  \/ Delete(CommitFaults)
  \/ BulkUpload(BulkNames)

SpecBulk == Init /\ [][NextBulk]_vars

(***************************************************************************)
(* Claims about the bulk importer                                          *)
(***************************************************************************)
\* the image_filename values of rows that match an uploaded name: the row
\* that equals it, otherwise the rows that end with "_" and the name
Matching(uploaded_filename) ==
  IF \E id \in Ids : table[id].image_filename = uploaded_filename
    THEN { uploaded_filename }
    ELSE { table[id].image_filename : id \in
             { i \in Ids : /\ table[i].image_filename # NULL
                           /\ endswith(table[i].image_filename,
                                       "_" \o uploaded_filename) } }

\* the positions of the batch the loop saved
Saved(request) == { k \in 1..Len(request.log) :
                      request.log[k].outcome = "saved" }

\* C6: in a bulk import, every file with an allowed extension that matches
\* a row (by equal name, otherwise by the suffix "_" and its name) is
\* written under a matching row's image_filename and counted as a success
\* (the store then holds its bytes there, unless a later file of the batch
\* was written there too); a file that matches no row is counted as a "no
\* matching sighting" failure; nothing else in the store changes.
C6_MatchedFileWritten ==
  [][ (last'.op = "bulk" /\ last'.selected) =>
        /\ \A k \in 1..Len(last'.files) :
             LET file == last'.files[k]
             IN  (file.filename # NameEmpty /\ allowed_file(file.filename))
                 => IF Matching(file.filename) # {}
                      THEN /\ k \in Saved(last')
                           /\ last'.log[k].target \in Matching(file.filename)
                           /\ exists(store', last'.log[k].target)
                           /\ \/ store'[last'.log[k].target] = file.bytes
                              \/ \E j \in Saved(last') :
                                   /\ j > k
                                   /\ last'.log[j].target
                                        = last'.log[k].target
                           /\ last'.success_count >= 1
                      ELSE /\ k <= Len(last'.log)
                           /\ last'.log[k].outcome = "nomatch"
                           /\ last'.error_count >= 1
        /\ last'.success_count = Cardinality(Saved(last'))
        /\ \A f \in DOMAIN store \cup DOMAIN store' :
             (f \notin DOMAIN store' \/ f \notin DOMAIN store
                \/ store'[f] # store[f])
             => \E k \in Saved(last') : last'.log[k].target = f ]_vars

\* C7: a bulk import reaches every file of the batch and ends with the
\* success count plus the failure count equal to the number of files with
\* a non-empty name.
C7_BatchCompletes ==
  (last.op = "bulk" /\ last.selected) =>
    /\ ~last.raised
    /\ Len(last.log) = Len(last.files)
    /\ last.success_count + last.error_count
         = Cardinality({ k \in 1..Len(last.files) :
                           last.files[k].filename # NameEmpty })

(***************************************************************************)
(* The archive export: GET /export/zip, app.py:400-477                     *)
(***************************************************************************)
\* n in decimal, zero-padded to width w (%Y, %m, %d, %H, %M, %S)
Pad(n, w) == IF Len(str(n)) >= w THEN str(n)
             ELSE SubSeq("0000", 1, w - Len(str(n))) \o str(n)

\* timestamp.strftime('%Y-%m-%d %H:%M:%S'), app.py:434
strftime(dt) ==
  Pad(dt[1], 4) \o "-" \o Pad(dt[2], 2) \o "-" \o Pad(dt[3], 2) \o " "
    \o Pad(dt[4], 2) \o ":" \o Pad(dt[5], 2) \o ":" \o Pad(dt[6], 2)

\* the timestamps a row can hold
Timestamps == Clock \cup ({ ParsedMinute[t] : t \in DOMAIN ParsedMinute }
                           \ { ValueError })

\* sighting.timestamp.strftime(...) if sighting.timestamp else '', app.py:434
Strftime == [ dt \in Timestamps \cup { NoTime } |->
                IF dt = NoTime THEN "" ELSE strftime(dt) ]

\* value or '', app.py:428-438
OrEmpty(value) == IF value = NULL THEN "" ELSE value

\* fieldnames, app.py:418-421
Fieldnames(include_notes) ==
  IF include_notes
    THEN << "state", "license_plate", "car_make", "car_model", "color",
            "location", "timestamp", "notes", "image_filename" >>
    ELSE << "state", "license_plate", "car_make", "car_model", "color",
            "location", "timestamp", "image_filename" >>

\* the CSV line of a row, app.py:427-439
CsvRow(sighting, include_notes) ==
  [ i \in DOMAIN Fieldnames(include_notes) |->
      IF Fieldnames(include_notes)[i] = "timestamp"
        THEN Strftime[sighting.timestamp]
        ELSE OrEmpty(sighting[Fieldnames(include_notes)[i]]) ]

\* Sighting.query.order_by(Sighting.timestamp.desc()).all(), app.py:404:
\* the ids of the table, newest first, rows of equal timestamp in any order
NewestFirst ==
  { o \in [1..Cardinality(Ids) -> Ids] :
      /\ \A i, j \in DOMAIN o : o[i] = o[j] => i = j
      /\ \A i, j \in DOMAIN o :
           i < j => ~DtLess(table[o[i]].timestamp, table[o[j]].timestamp) }

\* a directory of an export: the lines of license_plates_export.csv and the
\* files of images/
Dir(csv, images) == [ exists |-> TRUE, csv |-> csv, images |-> images ]

\* a directory without files
EmptyDir == Dir(<< >>, << >>)

\* os.makedirs(temp_dir, exist_ok=True) and of images/, app.py:407-413
makedirs(dir) == IF dir.exists THEN dir ELSE EmptyDir

\* "Copy image file if exists", app.py:442-444
Resolvable(files, sighting) ==
  /\ sighting.image_filename # NULL
  /\ sighting.image_filename # ""
  /\ exists(files, sighting.image_filename)

\* the loop of app.py:426-446 from the k-th row on: a line of CSV per row,
\* and a copy of its image if the file exists.  shutil.copy2 raises under
\* fault "copy"
RECURSIVE stage_rows(_, _, _, _, _, _)
stage_rows(sightings, k, include_notes, files, fault, acc) ==
  IF k > Len(sightings) \/ acc.raised THEN acc
  ELSE
    LET sighting == table[sightings[k]]
        csv == Append(acc.dir.csv, CsvRow(sighting, include_notes))
    IN  IF ~Resolvable(files, sighting)
          THEN stage_rows(sightings, k + 1, include_notes, files, fault,
                 [ acc EXCEPT !.dir.csv = csv ])
        ELSE IF fault = "copy"
          THEN [ acc EXCEPT !.dir.csv = csv, !.raised = TRUE ]
        ELSE stage_rows(sightings, k + 1, include_notes, files, fault,
               [ acc EXCEPT
                   !.dir.csv = csv,
                   !.dir.images =
                      Put(@, sighting.image_filename,
                          files[sighting.image_filename]) ])

\* "Create CSV", app.py:415-446: open(csv_path, 'w') raises under fault
\* "csv"; otherwise the header is written, then the rows
staged(dir, sightings, include_notes, files, fault) ==
  IF fault = "csv"
    THEN [ dir |-> dir, raised |-> TRUE ]
    ELSE stage_rows(sightings, 1, include_notes, files, fault,
           [ dir |-> [ dir EXCEPT !.csv = << Fieldnames(include_notes) >> ],
             raised |-> FALSE ])

\* a faulty zipped: every file of the upload folder is added under images/
zipped_upload_folder(dir, fault) ==
  IF fault = "zip" THEN EmptyDir
  ELSE Dir(dir.csv, store)

\* "Create ZIP file", app.py:448-457: the CSV and every file os.listdir
\* finds in images/.  Under fault "zip" the write raises and leaves an
\* archive without entries
zipped(dir, fault) ==
  IF fault = "zip" THEN EmptyDir
  ELSE Dir(dir.csv, dir.images)

\* a faulty rmtree: the directory is left when the request raised
rmtree_on_success(dir, raised) == IF raised THEN dir ELSE Absent

\* "Cleanup temporary directory", app.py:467-470
rmtree(dir, raised) == Absent

\* the record of an export: the step that raised ("none": the archive was
\* sent), what the staging directory held when the try block ended, and
\* the archive that was sent
Exported(include_notes, error, built, archive) ==
  [ op |-> "export", include_notes |-> include_notes, error |-> error,
    built |-> built, archive |-> archive ]

\* the faults after the staging: the write of the archive, the send
LateFaults == {"zip", "send"}

\* export_zip, app.py:400-477.  os.remove of the archive fails (swallowed,
\* app.py:474-477) under fault "unlink"
export_zip(include_notes, sightings, fault) ==
  \E stage \in { staged(makedirs(staging), sightings, include_notes, store,
                        fault) } :
  \E raised \in { stage.raised \/ fault \in LateFaults } :
  \E archive \in { IF stage.raised THEN zipfile
                   ELSE zipped(stage.dir, fault) } :
    /\ staging' = rmtree(stage.dir, raised)
    /\ zipfile' = IF archive.exists /\ fault = "unlink" THEN archive
                  ELSE Absent
    /\ last' = Exported(include_notes,
                        IF raised THEN fault ELSE "none",
                        stage.dir,
                        IF raised THEN Absent ELSE archive)

ExportZip(faults) ==
  /\ \E include_notes \in BOOLEAN, sightings \in NewestFirst,
        fault \in faults :
       export_zip(include_notes, sightings, fault)
  /\ UNCHANGED << exports, backend, table, seq, store, audit >>

TimedForms == { FormA, FormB }

ExportFaults == {"none", "csv", "copy", "zip", "send"}

NextExport ==
  \/ Create(TimedForms, ImageUploads, NoFault)
  \/ Delete(DeleteFaults)
  \/ ExportZip(ExportFaults)

SpecExport == Init /\ [][NextExport]_vars

(***************************************************************************)
(* Claims about the archive export                                         *)
(***************************************************************************)
\* C8: the archive an export sends has an images/ entry only for names that
\* are the image_filename of a row and whose file is in the image store,
\* and its CSV has exactly one data line per row of the table.
C8_ArchiveOnlyResolvable ==
  (last.op = "export" /\ last.error = "none") =>
    /\ last.archive.exists
    /\ \A f \in DOMAIN last.archive.images :
         /\ \E id \in Ids : table[id].image_filename = f
         /\ f \in Files
    /\ Len(last.archive.csv) = 1 + Cardinality(Ids)

\* C8 witness: an export sent an archive with an image while one row names
\* a file that is missing and one file belongs to no row
C8_Witness ==
  /\ last.op = "export" /\ last.error = "none"
  /\ DOMAIN last.archive.images # {}
  /\ \E id \in Ids : /\ table[id].image_filename # NULL
                     /\ table[id].image_filename \notin Files
  /\ \E f \in Files : \A id \in Ids : table[id].image_filename # f

DateTexts == { "", "2025-10-05", "2025-10-06", "2025-10-4", "10/05/2025",
               "2025-02-30", "9999-12-31" }

\* datetime.strptime(text, '%Y-%m-%d'), app.py:111 and 117
ParsedDate == [ text \in DateTexts |-> strptime_date(text) ]

\* no filter on a side of the range
NoBound == << "NoBound" >>

\* the lower bound of the filter, app.py:109-114
StartBound(start_date_str) ==
  IF start_date_str = "" \/ ParsedDate[start_date_str] = ValueError
    THEN NoBound
    ELSE ParsedDate[start_date_str]

\* the upper bound of the filter, app.py:115-120
EndBound(end_date_str) ==
  IF end_date_str = "" \/ ParsedDate[end_date_str] = ValueError
    THEN NoBound
    ELSE PlusOneDay(ParsedDate[end_date_str])

\* the two sides of the range
Sides == {"start", "end"}

\* sort_by, app.py:102: by timestamp, newest first unless date_asc
SortKeys == {"date_desc", "date_asc"}

\* the flashes of app.py:114 and 120
Warnings(start_date_str, end_date_str) ==
  { side \in Sides :
      LET text == IF side = "start" THEN start_date_str ELSE end_date_str
      IN  text # "" /\ ParsedDate[text] = ValueError }

\* Sighting.timestamp >= start_date AND Sighting.timestamp < end_date,
\* app.py:112 and 118: a comparison with a NULL timestamp is not true
Filtered(start, end) ==
  { id \in Ids :
      /\ start # NoBound =>
           /\ table[id].timestamp # NoTime
           /\ ~DtLess(table[id].timestamp, start)
      /\ end # NoBound =>
           /\ table[id].timestamp # NoTime
           /\ DtLess(table[id].timestamp, end) }

\* query.order_by(Sighting.timestamp.asc() or .desc()).all(), app.py:
\* 122-136: the rows in ids ordered by timestamp, equal timestamps in any
\* order.  The other sort keys order by text columns and return the same
\* rows
Ordered(ids, sort_by) ==
  { o \in [1..Cardinality(ids) -> ids] :
      /\ \A i, j \in DOMAIN o : o[i] = o[j] => i = j
      /\ \A i, j \in DOMAIN o :
           i < j => IF sort_by = "date_asc"
                      THEN ~DtLess(table[o[j]].timestamp,
                                   table[o[i]].timestamp)
                      ELSE ~DtLess(table[o[i]].timestamp,
                                   table[o[j]].timestamp) }

\* the record of a listing: the parameters, the exception that ended the
\* request ("none": the page was rendered), the warnings flashed, and the
\* rows of the page
Listed(start_date_str, end_date_str, sort_by, error, warnings, sightings) ==
  [ op |-> "index", start_date |-> start_date_str,
    end_date |-> end_date_str, sort_by |-> sort_by, error |-> error,
    warnings |-> warnings, sightings |-> sightings ]

\* index, app.py:100-144
index(start_date_str, end_date_str, sort_by) ==
  \E start \in { StartBound(start_date_str) } :
  \E end \in { EndBound(end_date_str) } :
    IF end = OverflowError
      THEN \* nothing catches the OverflowError of app.py:117
           last' = Listed(start_date_str, end_date_str, sort_by,
                          "OverflowError",
                          Warnings(start_date_str, "") , << >>)
      ELSE \E sightings \in Ordered(Filtered(start, end), sort_by) :
             last' = Listed(start_date_str, end_date_str, sort_by, "none",
                            Warnings(start_date_str, end_date_str),
                            sightings)

Index ==
  /\ \E start_date_str \in DateTexts, end_date_str \in DateTexts,
        sort_by \in SortKeys :
       index(start_date_str, end_date_str, sort_by)
  /\ UNCHANGED << exports, backend, table, seq, store, staging, zipfile,
                  audit >>

NextIndex ==
  \/ Create(TimedForms, NoUpload, NoFault)
  \/ Index

SpecIndex == Init /\ [][NextIndex]_vars

(***************************************************************************)
(* Claims about the listing                                                *)
(***************************************************************************)
\* the calendar day of a timestamp
Day(dt) == << dt[1], dt[2], dt[3] >>

\* day a is not after day b
DayLeq(a, b) ==
  \/ a = b
  \/ \E i \in 1..3 : a[i] < b[i] /\ \A j \in 1..(i - 1) : a[j] = b[j]

WellFormed(text) == text # "" /\ ParsedDate[text] # ValueError

\* the rows a listing with these parameters is to return: those of a day
\* from S to E, with no bound on a side whose text is absent or malformed
Expected(request) ==
  { id \in Ids :
      /\ WellFormed(request.start_date) =>
           DayLeq(Day(ParsedDate[request.start_date]),
                  Day(table[id].timestamp))
      /\ WellFormed(request.end_date) =>
           DayLeq(Day(table[id].timestamp),
                  Day(ParsedDate[request.end_date])) }

\* C10: every listing is rendered and returns exactly the rows whose
\* timestamp is on a day from S to E (S 00:00:00 <= t < E + 1 day), a
\* malformed S or E setting no bound and flashing a warning.
C10_WholeEndDayIncluded ==
  last.op = "index" =>
    /\ last.error = "none"
    /\ { last.sightings[i] : i \in DOMAIN last.sightings } = Expected(last)
    /\ Len(last.sightings) = Cardinality(Expected(last))
    /\ last.warnings
         = { side \in Sides :
               LET text == IF side = "start" THEN last.start_date
                           ELSE last.end_date
               IN  text # "" /\ ~WellFormed(text) }

(***************************************************************************)
(* The code-literal export, GET /export/python (app.py:479-517): the text  *)
(* of a Python assignment plates_data = [ {...}, ... ]                     *)
(***************************************************************************)
Quote     == "\""
Backslash == "\\"
Newline   == "\n"

\* the keys of data_dict in insertion order, app.py:492-503
DictKeys(include_notes) ==
  IF include_notes
    THEN << "state", "plate", "make", "model", "color", "location",
            "timestamp", "image_filename", "notes" >>
    ELSE << "state", "plate", "make", "model", "color", "location",
            "timestamp", "image_filename" >>

\* the value data_dict holds under key k, app.py:492-503
DictValue(sighting, k) ==
  CASE k = "state"          -> OrEmpty(sighting.state)
    [] k = "plate"          -> OrEmpty(sighting.license_plate)
    [] k = "make"           -> OrEmpty(sighting.car_make)
    [] k = "model"          -> OrEmpty(sighting.car_model)
    [] k = "color"          -> OrEmpty(sighting.color)
    [] k = "location"       -> OrEmpty(sighting.location)
    [] k = "timestamp"      -> IF sighting.timestamp = NoTime THEN ""
                               ELSE strftime(sighting.timestamp)
    [] k = "image_filename" -> OrEmpty(sighting.image_filename)
    [] k = "notes"          -> OrEmpty(sighting.notes)

RECURSIVE Join(_, _)
\* sep.join(parts), app.py:506 and 511
Join(parts, sep) ==
  IF parts = << >> THEN ""
  ELSE IF Len(parts) = 1 THEN parts[1]
  ELSE parts[1] \o sep \o Join(Tail(parts), sep)

\* f'"{k}": "{v}"', app.py:506: the value is written between quotes as it
\* is
Item(k, v) == Quote \o k \o Quote \o ": " \o Quote \o v \o Quote

\* the line of a row, app.py:505-507
DictLine(sighting, include_notes) ==
  "    {"
    \o Join([ i \in DOMAIN DictKeys(include_notes) |->
                Item(DictKeys(include_notes)[i],
                     DictValue(sighting, DictKeys(include_notes)[i])) ],
            ", ")
    \o "},"

\* the lines before the rows, app.py:485-489
Preamble ==
  << "# Generated export from License Plate Tracker",
     "# Copy the plates_data list into your seed_data.py file",
     "",
     "plates_data = [" >>

\* the body of the response, app.py:485-511
Output(sightings, include_notes) ==
  Join(Preamble
         \o [ i \in DOMAIN sightings |->
                DictLine(table[sightings[i]], include_notes) ]
         \o << "]" >>,
       Newline)

\* the record of a code-literal export: the rows it read and the text it
\* sent
ExportedPython(include_notes, rows, output) ==
  [ op |-> "export_python", include_notes |-> include_notes,
    rows |-> rows, output |-> output ]

\* export_python, app.py:479-517
export_python(include_notes, sightings) ==
  last' = ExportedPython(include_notes, table,
                         Output(sightings, include_notes))

ExportPython ==
  /\ \E include_notes \in BOOLEAN, sightings \in NewestFirst :
       export_python(include_notes, sightings)
  /\ UNCHANGED << exports, backend, table, seq, store, staging, zipfile,
                  audit >>

(***************************************************************************)
(* The demo-seed loader, seed_data_demo.py, with the exported plates_data  *)
(* in the place of its own list (seed_data_demo.py:10-20).  Python reads   *)
(* the text as source code: string literals end at the first quote that    *)
(* no backslash precedes, a backslash starts an escape sequence, and       *)
(* string literals that follow each other are one string.                  *)
(***************************************************************************)
IdentChars == Range(LowerAlpha) \cup Range(UpperAlpha)
                \cup Range(DigitChars) \cup {"_"}

\* the characters that start no token: blanks and the start of a comment
NoToken == {" ", "\n", "#"}

\* the character at position i of s, "" past its end
Peek(s, i) == IF i >= 1 /\ i <= Len(s) THEN At(s, i) ELSE ""

\* where the tokenizer is after a character c that it read in mode m, c1
\* and c2 being the two characters after c: in code, in a comment, in a
\* string literal (str, esc after a backslash), in a triple-quoted one
\* (open1 and open2 after the first and second quote that open it, triple,
\* tesc, close1 and close2 after the first and second quote that close
\* it), or at an error (a line end inside a string literal)
Step(m, c, c1, c2) ==
  CASE m = "code" ->
         IF c = Quote
           THEN IF c1 = Quote /\ c2 = Quote THEN "open1" ELSE "str"
         ELSE IF c = "#" THEN "comment"
         ELSE "code"
    [] m = "comment" -> IF c = Newline THEN "code" ELSE "comment"
    [] m = "str" ->
         IF c = Quote THEN "code"
         ELSE IF c = Backslash THEN "esc"
         ELSE IF c = Newline THEN "error"
         ELSE "str"
    [] m = "esc" -> "str"
    [] m = "open1" -> "open2"
    [] m = "open2" -> "triple"
    [] m = "triple" ->
         IF c = Quote /\ c1 = Quote /\ c2 = Quote THEN "close1"
         ELSE IF c = Backslash THEN "tesc"
         ELSE "triple"
    [] m = "tesc" -> "triple"
    [] m = "close1" -> "close2"
    [] m = "close2" -> "code"
    [] m = "error" -> "error"

RECURSIVE Scan(_, _, _, _)
RECURSIVE ScanRest(_, _, _, _)
\* the modes after each of the characters a..b of s, read from mode m (the
\* text is halved to keep the evaluation shallow)
Scan(s, a, b, m) ==
  IF a > b THEN << >>
  ELSE IF a = b
    THEN << Step(m, At(s, a), Peek(s, a + 1), Peek(s, a + 2)) >>
  ELSE ScanRest(s, (a + b) \div 2, b, Scan(s, a, (a + b) \div 2, m))

ScanRest(s, mid, b, left) ==
  left \o Scan(s, mid + 1, b, left[Len(left)])

\* the mode in which the character at position i is read
Before(modes, i) == IF i = 1 THEN "code" ELSE modes[i - 1]

\* the text a backslash and the character e stand for in a string literal.
\* Of the escape sequences, the quotes, the backslash, \n, \t and the
\* escaped line end are read; any other character keeps its backslash
Escape(e) ==
  CASE e = Quote     -> Quote
    [] e = "'"       -> "'"
    [] e = Backslash -> Backslash
    [] e = "n"       -> Newline
    [] e = "t"       -> "\t"
    [] e = Newline   -> ""
    [] OTHER         -> Backslash \o e

EscapeModes == {"esc", "tesc"}

RECURSIVE Unescaped(_, _, _, _)
\* the value of the characters a..b of a string literal
Unescaped(s, modes, a, b) ==
  IF a > b THEN ""
  ELSE IF a = b
    THEN IF modes[a] \in EscapeModes THEN ""
         ELSE IF Before(modes, a) \in EscapeModes THEN Escape(At(s, a))
         ELSE At(s, a)
  ELSE Unescaped(s, modes, a, (a + b) \div 2)
         \o Unescaped(s, modes, (a + b) \div 2 + 1, b)

\* the tokens: a string literal, a name (or number), an operator
Token(type, text) == [ type |-> type, text |-> text ]

\* no token: the end of the text
EndMarker == Token("end", "")

Min(S) == CHOOSE x \in S : \A y \in S : x <= y

\* the positions of s at which a token starts
Starts(s, modes) ==
  { i \in 1..Len(s) :
      /\ Before(modes, i) = "code"
      /\ At(s, i) \notin NoToken
      /\ At(s, i) \in IdentChars =>
           \/ i = 1
           \/ Before(modes, i - 1) # "code"
           \/ At(s, i - 1) \notin IdentChars }

\* the token that starts at position i
TokenAt(s, modes, i) ==
  IF At(s, i) = Quote
    THEN LET j == Min({ k \in (i + 1)..Len(s) : modes[k] = "code" })
         IN  IF modes[i] = "open1"
               THEN Token("str", Unescaped(s, modes, i + 3, j - 3))
               ELSE Token("str", Unescaped(s, modes, i + 1, j - 1))
  ELSE IF At(s, i) \in IdentChars
    THEN LET j == Min({ k \in i..Len(s) : Peek(s, k + 1) \notin IdentChars })
         IN  Token("name", SubSeq(s, i, j))
  ELSE Token("op", At(s, i))

\* the tokens at the sorted positions starts
TokensAt(s, modes, starts) ==
  [ n \in 1..Cardinality(starts) |->
      TokenAt(s, modes,
              CHOOSE i \in starts :
                Cardinality({ k \in starts : k < i }) = n - 1) ]

\* the modes in which a text may end: outside every string literal
EndModes == {"code", "comment"}

\* the tokens of a text read with these modes; error when a string literal
\* is not closed
Tokenized(s, modes) ==
  IF modes # << >> /\ modes[Len(modes)] \notin EndModes
    THEN [ error |-> TRUE, tokens |-> << >> ]
    ELSE [ error |-> FALSE,
           tokens |-> TokensAt(s, modes, Starts(s, modes)) ]

\* the tokens of source text s.  A name before a quote is read as a name:
\* the texts of the model put no string prefix (r, b, f, u) there
Tokens(s) == Tokenized(s, Scan(s, 1, Len(s), "code"))

\* the i-th token, EndMarker past the last
Tok(tokens, i) == IF i <= Len(tokens) THEN tokens[i] ELSE EndMarker

Op(c) == Token("op", c)

\* the text does not parse
SyntaxError == [ error |-> "SyntaxError" ]

\* one or more string literals from token i on, read as one string
RECURSIVE Strings(_, _, _)
Strings(tokens, i, value) ==
  IF Tok(tokens, i).type = "str"
    THEN Strings(tokens, i + 1, value \o Tok(tokens, i).text)
    ELSE [ value |-> value, next |-> i ]

\* a dict display after its "{": "key": "value" pairs between commas up to
\* "}"; a key written twice keeps its last value
RECURSIVE DictDisplay(_, _, _)
DictDisplay(tokens, i, data) ==
  IF Tok(tokens, i) = Op("}")
    THEN [ error |-> "none", data |-> data, next |-> i + 1 ]
  ELSE IF Tok(tokens, i).type # "str" THEN SyntaxError
  ELSE
    LET key == Strings(tokens, i, "")
    IN  IF Tok(tokens, key.next) # Op(":")
             \/ Tok(tokens, key.next + 1).type # "str"
          THEN SyntaxError
        ELSE
          LET value == Strings(tokens, key.next + 1, "")
              put   == Put(data, key.value, value.value)
          IN  IF Tok(tokens, value.next) = Op(",")
                THEN DictDisplay(tokens, value.next + 1, put)
              ELSE IF Tok(tokens, value.next) = Op("}")
                THEN [ error |-> "none", data |-> put,
                       next |-> value.next + 1 ]
              ELSE SyntaxError

\* a list display after its "[": dict displays between commas up to "]",
\* which ends the text
RECURSIVE ListDisplay(_, _, _)
ListDisplay(tokens, i, list) ==
  IF Tok(tokens, i) = Op("]")
    THEN IF i = Len(tokens) THEN [ error |-> "none", list |-> list ]
         ELSE SyntaxError
  ELSE IF Tok(tokens, i) # Op("{") THEN SyntaxError
  ELSE
    LET d == DictDisplay(tokens, i + 1, << >>)
    IN  IF d.error # "none" THEN SyntaxError
        ELSE IF Tok(tokens, d.next) = Op(",")
          THEN ListDisplay(tokens, d.next + 1, Append(list, d.data))
        ELSE IF Tok(tokens, d.next) = Op("]") /\ d.next = Len(tokens)
          THEN [ error |-> "none", list |-> Append(list, d.data) ]
        ELSE SyntaxError

\* the list the statement plates_data = [...] of the text binds,
\* seed_data_demo.py:10-20
plates_data(text) ==
  LET lexed == Tokens(text)
  IN  IF lexed.error THEN SyntaxError
      ELSE IF /\ Tok(lexed.tokens, 1) = Token("name", "plates_data")
              /\ Tok(lexed.tokens, 2) = Op("=")
              /\ Tok(lexed.tokens, 3) = Op("[")
        THEN ListDisplay(lexed.tokens, 4, << >>)
      ELSE SyntaxError

\* the date and time part of a format: %Y-%m-%d %H:%M:%S
strptime_second(s) ==
  LET p == Split(s, " ")
  IN  IF Len(p) # 2 THEN ValueError
      ELSE LET d == DateFields(p[1])
               t == Split(p[2], ":")
           IN  IF /\ d # ValueError
                  /\ Len(t) = 3
                  /\ Field2(t[1], 0, 23)
                  /\ Field2(t[2], 0, 59)
                  /\ Field2(t[3], 0, 61)
                 THEN d \o << Num(t[1]), Num(t[2]), Num(t[3]) >>
                 ELSE ValueError

\* the keys seed_database reads with data[...], seed_data_demo.py:24-30
SeedRequired == {"state", "plate", "make", "model", "color", "timestamp"}

\* data.get(k), seed_data_demo.py:29 and 31
Get(data, k) == IF k \in DOMAIN data THEN data[k] ELSE NULL

\* Sighting(...), seed_data_demo.py:23-33
SeedRow(data) ==
  [ state |-> data["state"],
    license_plate |-> data["plate"],
    car_make |-> data["make"],
    car_model |-> data["model"],
    color |-> data["color"],
    location |-> Get(data, "location"),
    timestamp |-> strptime_second(data["timestamp"]),
    notes |-> Get(data, "notes"),
    image_filename |-> NULL ]

\* the loop of seed_data_demo.py:22-34 from the k-th entry on: the rows
\* added to the session, or the exception that ended the run
RECURSIVE seed_rows(_, _, _)
seed_rows(list, k, rows) ==
  IF k > Len(list) THEN [ error |-> "none", rows |-> rows ]
  ELSE IF ~(SeedRequired \subseteq DOMAIN list[k])
    THEN [ error |-> "KeyError" ]
  ELSE IF strptime_second(list[k]["timestamp"]) = ValueError
    THEN [ error |-> "ValueError" ]
  ELSE seed_rows(list, k + 1, Append(rows, SeedRow(list[k])))

\* the record of a run of the loader: the export it was given, the
\* exception that ended it ("none": it committed)
Seeded(export, error) ==
  [ op |-> "seed", include_notes |-> export.include_notes,
    exported |-> export.rows, error |-> error ]

\* a run that raised: nothing was committed, seed_data_demo.py:36 is not
\* reached
SeedFailed(export, error) ==
  /\ UNCHANGED << table, seq, audit >>
  /\ last' = Seeded(export, error)

\* seed_database, seed_data_demo.py:4-37: the table is cleared and the
\* entries are inserted in the order of the list, under the ids the
\* database hands out
seed_database(export) ==
  \E parsed \in { plates_data(export.output) } :
    IF parsed.error # "none" THEN SeedFailed(export, parsed.error)
    ELSE
      \E loaded \in { seed_rows(parsed.list, 1, << >>) } :
        IF loaded.error # "none" THEN SeedFailed(export, loaded.error)
        ELSE
          \E first \in { IF backend = "sqlite" THEN 0 ELSE seq } :
            /\ first + Len(loaded.rows) <= MaxId
            /\ table' = [ id \in (first + 1)..(first + Len(loaded.rows))
                            |-> loaded.rows[id - first] ]
            /\ seq' = IF backend = "postgresql"
                        THEN seq + Len(loaded.rows) ELSE seq
            /\ audit' = [ id \in (first + 1)..(first + Len(loaded.rows))
                            |-> Attest(loaded.rows[id - first],
                                       loaded.rows[id - first], store) ]
            /\ last' = Seeded(export, "none")

\* the loader is run on the text of the last export
Seed ==
  /\ last.op = "export_python"
  /\ seed_database(last)
  /\ UNCHANGED << exports, backend, store, staging, zipfile >>

\* texts with the characters a string literal gives a meaning to
FormQuote == [ FormB EXCEPT !.car_model = "6\"" ]
FormSlash == [ FormB EXCEPT !.notes = "\\new" ]

SeedForms == { FormA, FormB, FormQuote, FormSlash }

NextSeed ==
  \/ Create(SeedForms, NoUpload, NoFault)
  \/ ExportPython
  \/ Seed

SpecSeed == Init /\ [][NextSeed]_vars

(***************************************************************************)
(* Claims about the code-literal export                                    *)
(***************************************************************************)
\* the (state, plate, make, model, color) tuples of a table
Tuples(rows) ==
  { << rows[id].state, rows[id].license_plate, rows[id].car_make,
       rows[id].car_model, rows[id].color >> : id \in DOMAIN rows }

\* the tuples of a table with the timestamp and the notes of each row
TuplesWithNotes(rows) ==
  { << rows[id].state, rows[id].license_plate, rows[id].car_make,
       rows[id].car_model, rows[id].color, rows[id].timestamp,
       rows[id].notes >> : id \in DOMAIN rows }

\* C11: the seed loader, given the plates_data list of a code-literal
\* export, loads a table with the same set of (state, plate, make, model,
\* color) tuples as the exported table, and with include_notes the same
\* timestamp and notes for each record, null notes included.
C11_RoundTrip ==
  last.op = "seed" =>
    /\ last.error = "none"
    /\ Tuples(table) = Tuples(last.exported)
    /\ last.include_notes =>
         TuplesWithNotes(table) = TuplesWithNotes(last.exported)

(***************************************************************************)
(* Concurrent archive exports: export_zip (app.py:400-477) one file system *)
(* call at a time, for the requests of Requests.  Every request uses the   *)
(* same directory UPLOAD_FOLDER/temp_export and the same archive           *)
(* UPLOAD_FOLDER/license_plates_export.zip (app.py:407 and 449).           *)
(***************************************************************************)
\* license_plates_export.csv opened for writing and not yet closed: the
\* file is there and holds nothing (one line without fields tells it from
\* no file)
Opened == << << >> >>

\* the positions of a request that holds nothing of the staging area
AtRest == {"idle", "done"}

\* a request in progress: where it is, its include_notes, the rows its
\* query returned, the next row of its loop, the lines its CSV writer
\* holds, whether the file it opened is still the one of the directory,
\* the exception it raised ("none": none), and the archive it sent
Request(pc, include_notes, rows, k, lines, linked, error, sent) ==
  [ pc |-> pc, include_notes |-> include_notes, rows |-> rows, k |-> k,
    lines |-> lines, linked |-> linked, error |-> error, sent |-> sent ]

\* request r moves on to pc
Goto(r, pc) == [ exports EXCEPT ![r].pc = pc ]

\* request r raises: the finally block is next, app.py:467
Raise(r, error) == [ exports EXCEPT ![r].pc = "rmtree", ![r].error = error ]

\* the rows of the table in the order of a query
RowsOf(sightings) == [ i \in DOMAIN sightings |-> table[sightings[i]] ]

\* what no step of an export writes
Untouched == UNCHANGED << backend, table, seq, store, audit, last >>

\* app.py:403-408: the arguments, the query, os.makedirs(temp_dir)
Begin(r) ==
  /\ exports[r].pc \in AtRest
  /\ \E include_notes \in BOOLEAN, sightings \in NewestFirst :
       exports' = [ exports EXCEPT ![r] =
                      Request("images", include_notes, RowsOf(sightings),
                              1, << >>, FALSE, "none", Absent) ]
  /\ staging' = makedirs(staging)
  /\ UNCHANGED zipfile
  /\ Untouched

\* app.py:412-413: os.makedirs(images_dir) makes temp_dir again if it is
\* gone
MakeImages(r) ==
  /\ exports[r].pc = "images"
  /\ staging' = makedirs(staging)
  /\ exports' = Goto(r, "open")
  /\ UNCHANGED zipfile
  /\ Untouched

\* app.py:416-424: open(csv_path, 'w') makes or truncates the file and
\* raises when temp_dir is gone; the header goes to the writer
OpenCsv(r) ==
  /\ exports[r].pc = "open"
  /\ IF staging.exists
       THEN /\ staging' = [ staging EXCEPT !.csv = Opened ]
            /\ exports' = [ exports EXCEPT
                              ![r].pc = "rows",
                              ![r].lines =
                                 << Fieldnames(exports[r].include_notes) >>,
                              ![r].linked = TRUE ]
       ELSE /\ staging' = staging
            /\ exports' = Raise(r, "FileNotFoundError")
  /\ UNCHANGED zipfile
  /\ Untouched

\* app.py:426-446, one turn of the loop: a line for the row, and a copy of
\* its image if the file exists; shutil.copy2 raises when images/ is gone
WriteRow(r) ==
  /\ exports[r].pc = "rows"
  /\ exports[r].k <= Len(exports[r].rows)
  /\ \E sighting \in { exports[r].rows[exports[r].k] } :
     \E lines \in { Append(exports[r].lines,
                           CsvRow(sighting, exports[r].include_notes)) } :
       IF ~Resolvable(store, sighting)
         THEN /\ staging' = staging
              /\ exports' = [ exports EXCEPT ![r].lines = lines,
                                             ![r].k = @ + 1 ]
       ELSE IF ~staging.exists
         THEN /\ staging' = staging
              /\ exports' = [ exports EXCEPT
                                ![r].lines = lines,
                                ![r].pc = "rmtree",
                                ![r].error = "FileNotFoundError" ]
       ELSE /\ staging' = [ staging EXCEPT
                              !.images = Put(@, sighting.image_filename,
                                             store[sighting.image_filename]) ]
            /\ exports' = [ exports EXCEPT ![r].lines = lines,
                                           ![r].k = @ + 1 ]
  /\ UNCHANGED zipfile
  /\ Untouched

\* the end of the with block of app.py:417: the lines of the writer reach
\* the file, which is the one of the directory unless that was removed
CloseCsv(r) ==
  /\ exports[r].pc = "rows"
  /\ exports[r].k > Len(exports[r].rows)
  /\ staging' = IF exports[r].linked
                  THEN [ staging EXCEPT !.csv = exports[r].lines ]
                  ELSE staging
  /\ exports' = Goto(r, "zip")
  /\ UNCHANGED zipfile
  /\ Untouched

\* app.py:448-457: the archive is made or truncated, then the CSV and the
\* files of images/ are added; zipf.write and os.listdir raise when the
\* file or the directory is gone, and leave an archive without entries
WriteZip(r) ==
  /\ exports[r].pc = "zip"
  /\ IF staging.exists /\ staging.csv # << >>
       THEN /\ zipfile' = zipped(staging, "none")
            /\ exports' = Goto(r, "send")
       ELSE /\ zipfile' = EmptyDir
            /\ exports' = Raise(r, "FileNotFoundError")
  /\ UNCHANGED staging
  /\ Untouched

\* app.py:460-465: send_from_directory opens the archive, NotFound when it
\* is gone
Send(r) ==
  /\ exports[r].pc = "send"
  /\ exports' = IF zipfile.exists
                  THEN [ exports EXCEPT ![r].pc = "rmtree",
                                        ![r].sent = zipfile ]
                  ELSE Raise(r, "NotFound")
  /\ UNCHANGED << staging, zipfile >>
  /\ Untouched

\* app.py:467-470: shutil.rmtree(temp_dir) if it exists; the files the
\* requests have open in it are no longer in a directory
Rmtree(r) ==
  /\ exports[r].pc = "rmtree"
  /\ staging' = rmtree(staging, exports[r].error # "none")
  /\ exports' = [ q \in Requests |->
                    IF q = r THEN [ exports[q] EXCEPT !.pc = "unlink",
                                                      !.linked = FALSE ]
                    ELSE IF exports[q].pc \in AtRest
                      THEN exports[q]
                    ELSE [ exports[q] EXCEPT !.linked = FALSE ] ]
  /\ UNCHANGED zipfile
  /\ Untouched

\* app.py:471-477: os.remove(zip_path) if it exists
Unlink(r) ==
  /\ exports[r].pc = "unlink"
  /\ zipfile' = Absent
  /\ exports' = Goto(r, "done")
  /\ UNCHANGED staging
  /\ Untouched

\* rows are added while no export is in progress
Populate ==
  /\ \A r \in Requests : exports[r].pc \in AtRest
  /\ Create(OneForm, ImageUploads, NoFault)

NextConcurrent ==
  \/ Populate
  \/ \E r \in Requests : Begin(r)
  \/ \E r \in Requests : MakeImages(r)
  \/ \E r \in Requests : OpenCsv(r)
  \/ \E r \in Requests : WriteRow(r)
  \/ \E r \in Requests : CloseCsv(r)
  \/ \E r \in Requests : WriteZip(r)
  \/ \E r \in Requests : Send(r)
  \/ \E r \in Requests : Rmtree(r)
  \/ \E r \in Requests : Unlink(r)

SpecConcurrent == Init /\ [][NextConcurrent]_vars

(***************************************************************************)
(* Claims about concurrent archive exports                                 *)
(***************************************************************************)
\* the positions of a request that is building or sending: from its
\* os.makedirs(temp_dir) to the start of its finally block
Building == {"images", "open", "rows", "zip", "send"}

\* request r takes a step
Acts(r) ==
  \/ exports'[r].pc # exports[r].pc
  \/ /\ exports[r].pc = "rows"
     /\ exports'[r].k # exports[r].k

\* the archive a request with these rows sends when no other request runs
AloneArchive(request) ==
  Dir(<< Fieldnames(request.include_notes) >>
        \o [ i \in DOMAIN request.rows |->
               CsvRow(request.rows[i], request.include_notes) ],
      [ f \in { request.rows[i].image_filename :
                  i \in { j \in DOMAIN request.rows :
                            Resolvable(store, request.rows[j]) } } |->
          store[f] ])

\* C12: no step of an export request changes the staging directory or the
\* archive while another export request is building or sending, and every
\* export request ends without an exception, having sent the archive of
\* its own rows and include_notes.
C12_ExportsDoNotCollide ==
  [][ \A r \in Requests :
        Acts(r) =>
          /\ \A q \in Requests \ {r} :
               exports[q].pc \in Building =>
                 staging' = staging /\ zipfile' = zipfile
          /\ exports'[r].pc = "done" =>
               /\ exports'[r].error = "none"
               /\ exports'[r].sent = AloneArchive(exports'[r]) ]_vars

(***************************************************************************)
(* Claims about the image handling of an update, app.py:226-247, under     *)
(* the sighting service with every fault (Spec)                            *)
(***************************************************************************)
\* the names save_image gives the uploads of row id: sighting_<id>_ and
\* the sanitized name of an upload with an allowed extension
UploadNames(id) ==
  { StoredNames[id, n] : n \in { f \in FileNames :
                                   f # NameEmpty /\ AllowedFile[f] } }

\* an update of row id that committed
Updated(id) ==
  /\ last'.op = "update" /\ last'.id = id /\ last'.found
  /\ last'.error = "none" /\ last'.commits = 1

\* C13, as claimed: after a successful update with the removal flag and no
\* stored upload the reference is cleared and the file it named is gone;
\* after a successful update that stored an upload the row references
\* sighting_<id>_<sanitized-name>, that file exists, and the file
\* referenced before is gone unless it has the same name.
C13_OldFileGone ==
  [][ \A id \in Ids :
        Updated(id) =>
          LET old == table[id].image_filename
              new == table'[id].image_filename
          IN  /\ (last'.writes = 0 /\ last'.remove_image) =>
                   /\ new = NULL
                   /\ old # NULL => ~exists(store', old)
              /\ last'.writes = 1 =>
                   /\ new \in UploadNames(id)
                   /\ exists(store', new)
                   /\ (old # NULL /\ old # new) => ~exists(store', old) ]_vars

\* C13: in a successful update the removal flag is handled before the
\* upload and the old file is deleted before the new one is stored: with
\* the flag and no stored upload the reference is cleared; with a stored
\* upload the row references sighting_<id>_<sanitized-name>, a file that
\* exists, after at most one os.remove; in both cases the file referenced
\* before is gone unless it has the name of the new one or its os.remove
\* failed (which is swallowed); without flag and upload the reference and
\* the image store are as they were.
C13_RemovalBeforeUpload ==
  [][ \A id \in Ids :
        Updated(id) =>
          LET old == table[id].image_filename
              new == table'[id].image_filename
          IN  /\ (last'.writes = 0 /\ last'.remove_image) =>
                   /\ new = NULL
                   /\ (old # NULL /\ ~last'.removeFailed) =>
                        ~exists(store', old)
              /\ last'.writes = 1 =>
                   /\ new \in UploadNames(id)
                   /\ exists(store', new)
                   /\ last'.removes <= 1
                   /\ (old # NULL /\ old # new /\ ~last'.removeFailed) =>
                        ~exists(store', old)
              /\ (last'.writes = 0 /\ ~last'.remove_image) =>
                   /\ new = old
                   /\ store' = store ]_vars

\* C13 witness: an update with the removal flag and an upload committed:
\* it removed the file of the row once, stored the upload, and the image
\* store holds the new file of the row and nothing else
C13_Witness ==
  /\ last.op = "update" /\ last.found /\ last.error = "none"
  /\ last.remove_image /\ last.removes = 1 /\ last.writes = 1
  /\ ~last.removeFailed
  /\ table[last.id].image_filename \in UploadNames(last.id)
  /\ Files = { table[last.id].image_filename }

=============================================================================
